---- MODULE Spec2Model ----
(***************************************************************************)
(* Fibers of the OWL render scheduler (src/src/component/fibers.ts):       *)
(* makeRootFiber, makeChildFiber, cancelFibers, the Fiber / RootFiber /    *)
(* MountFiber constructors and the two complete() commit protocols.        *)
(*                                                                         *)
(* The heap is a record H = [fibers, nodes, count, errors, target]: the    *)
(* fiber objects, the component nodes, the number of fiber objects         *)
(* constructed so far, the fibersInError set and the mount target's        *)
(* children. Every function of fibers.ts is an operator from a heap to a   *)
(* heap (plus its return value).                                           *)
(***************************************************************************)
EXTENDS Integers, Sequences, FiniteSets, TLC

\* ------------------------------------------------------------------ bounds
MaxFibers == 3      \* fiber objects constructed in one behaviour
MaxCounter == 3     \* a render request is not issued once a counter is this high

\* --------------------------------------------------------------- fixtures
NoFiber == 0        \* null / undefined fiber reference
NoBDom == 0         \* bdom: BDom | null = null

Nodes == {1, 2, 3}
\* component tree: node 1 is the application root, 2 its child, 3 the child of 2
NodeParent == <<0, 1, 2>>
\* number of callbacks each node registered per hook category
NodeWillPatch == <<2, 1, 0>>
NodePatched == <<1, 1, 0>>
NodeMounted == <<1, 1, 1>>
\* output held by a node that was mounted before the behaviour starts
InitialBDom(n) == 0 - n
\* element already present in the mount target
ExistingChild == 0 - 9

FiberIds == 1 .. MaxFibers

VARIABLES
  fibers,     \* fiber id -> Fiber object
  nodes,      \* node id -> [fiber, bdom, status] of the ComponentNode
  count,      \* number of fiber objects constructed
  errors,     \* fibersInError
  target,     \* childNodes of the mount target
  last        \* what the last operation did (history, read by the properties)

vars == <<fibers, nodes, count, errors, target, last>>

Heap ==
  [fibers |-> fibers, nodes |-> nodes, count |-> count, errors |-> errors,
   target |-> target]

\* ---------------------------------------------------------------- objects
BlankFiber ==
  [node |-> 0, bdom |-> NoBDom, root |-> NoFiber, parent |-> NoFiber,
   children |-> <<>>, appliedToDom |-> FALSE, kind |-> "none",
   counter |-> 0, willPatch |-> <<>>, patched |-> <<>>, mounted |-> <<>>,
   locked |-> FALSE, position |-> "none"]

Allocated(H) == 1 .. H.count

\* class Fiber: constructor(node, parent); the subclasses' field initialisers
\* (counter = 1, empty queues, locked = false) run for kind RootFiber/MountFiber
Fiber(H, node, parent, kind, position) ==
  LET id == H.count + 1
      root == IF parent # NoFiber THEN H.fibers[parent].root ELSE id
      obj == [BlankFiber EXCEPT !.node = node, !.parent = parent, !.root = root,
                                !.kind = kind, !.position = position,
                                !.counter = IF kind = "Fiber" THEN 0 ELSE 1]
      H1 == [H EXCEPT !.fibers[id] = obj, !.count = id]
      H2 == IF parent # NoFiber
            THEN [H1 EXCEPT !.fibers[root].counter = @ + 1,
                            !.fibers[parent].children = Append(@, id)]
            ELSE H1
  IN [heap |-> H2, fiber |-> id]

\* cancelFibers clearing the back-reference of the new root's node as well
RECURSIVE cancelFibersWide(_, _, _)
cancelFibersWide(H, root, fs) ==
  IF fs = <<>> THEN [heap |-> H, result |-> 0]
  ELSE LET fiber == Head(fs)
           H1 == [H EXCEPT !.nodes[H.fibers[fiber].node].fiber = NoFiber,
                           !.nodes[H.fibers[root].node].fiber = NoFiber,
                           !.fibers[fiber].root = root]
           own == IF H1.fibers[fiber].bdom = NoBDom THEN 1 ELSE 0
           sub == cancelFibersWide(H1, root, H1.fibers[fiber].children)
           rest == cancelFibersWide(sub.heap, root, Tail(fs))
       IN [heap |-> rest.heap, result |-> own + sub.result + rest.result]

\* function cancelFibers(root, fibers): number
RECURSIVE cancelFibers(_, _, _)
cancelFibers(H, root, fs) ==
  IF fs = <<>> THEN [heap |-> H, result |-> 0]
  ELSE LET fiber == Head(fs)
           H1 == [H EXCEPT !.nodes[H.fibers[fiber].node].fiber = NoFiber,
                           !.fibers[fiber].root = root]
           own == IF H1.fibers[fiber].bdom = NoBDom THEN 1 ELSE 0
           sub == cancelFibers(H1, root, H1.fibers[fiber].children)
           rest == cancelFibers(sub.heap, root, Tail(fs))
       IN [heap |-> rest.heap, result |-> own + sub.result + rest.result]

\* Array.prototype.indexOf / splice(i, 1): remove the first occurrence
RECURSIVE RemoveFirst(_, _)
RemoveFirst(s, x) ==
  IF s = <<>> THEN <<>>
  ELSE IF Head(s) = x THEN Tail(s)
  ELSE <<Head(s)>> \o RemoveFirst(Tail(s), x)

\* function cleanPatchableFiber(child, root)
cleanPatchableFiber(H, child, root) ==
  [H EXCEPT !.fibers[root].willPatch = RemoveFirst(@, child),
            !.fibers[root].patched = RemoveFirst(@, child)]

\* makeRootFiber without the recycling branch: always a new RootFiber
makeRootFiberFresh(H, node) ==
  LET f == Fiber(H, node, NoFiber, "RootFiber", "none")
      H1 == IF NodeWillPatch[node] > 0
            THEN [f.heap EXCEPT !.fibers[f.fiber].willPatch = Append(@, f.fiber)]
            ELSE f.heap
      H2 == IF NodePatched[node] > 0
            THEN [H1 EXCEPT !.fibers[f.fiber].patched = Append(@, f.fiber)]
            ELSE H1
  IN [heap |-> H2, fiber |-> f.fiber]

\* export function makeRootFiber(node): Fiber
makeRootFiber(H, node) ==
  LET current == H.nodes[node].fiber IN
  IF current # NoFiber
  THEN LET root == H.fibers[current].root
           c == cancelFibers(H, root, H.fibers[current].children)
           H1 == [c.heap EXCEPT !.fibers[root].counter = @ - c.result]
           H2 == [H1 EXCEPT !.fibers[current].children = <<>>]
           H3 == [H2 EXCEPT !.fibers[root].counter = @ + 1]
           H4 == [H3 EXCEPT !.fibers[current].bdom = NoBDom]
           H5 == IF current \in H4.errors
                 THEN [H4 EXCEPT !.errors = @ \ {current, root},
                                 !.fibers[current].appliedToDom = FALSE]
                 ELSE H4
       IN [heap |-> H5, fiber |-> current]
  ELSE LET f == Fiber(H, node, NoFiber, "RootFiber", "none")
           H1 == IF NodeWillPatch[node] > 0
                 THEN [f.heap EXCEPT !.fibers[f.fiber].willPatch = Append(@, f.fiber)]
                 ELSE f.heap
           H2 == IF NodePatched[node] > 0
                 THEN [H1 EXCEPT !.fibers[f.fiber].patched = Append(@, f.fiber)]
                 ELSE H1
       IN [heap |-> H2, fiber |-> f.fiber]

\* export function makeChildFiber(node, parent): Fiber
makeChildFiber(H, node, parent) ==
  LET current == H.nodes[node].fiber IN
  IF current # NoFiber
  THEN LET root == H.fibers[parent].root
           isSameRoot == H.fibers[current].root = root
           c == cancelFibers(H, root, H.fibers[current].children)
           H1 == [c.heap EXCEPT !.fibers[current].children = <<>>,
                                !.fibers[current].parent = parent]
           H2 == IF ~isSameRoot \/ H1.fibers[current].bdom # NoBDom
                 THEN [H1 EXCEPT !.fibers[root].counter = @ + 1]
                 ELSE H1
           H3 == IF isSameRoot THEN cleanPatchableFiber(H2, current, root) ELSE H2
           H4 == [H3 EXCEPT !.fibers[current].bdom = NoBDom,
                            !.fibers[current].root = root]
       IN [heap |-> H4, fiber |-> current]
  ELSE Fiber(H, node, parent, "Fiber", "none")

\* the MountFiber constructor without RootFiber's counter = 1 initialiser
MountFiberUncounted(H, node, position) ==
  Fiber(H, node, NoFiber, "Fiber", position)

\* new MountFiber(node, target, options): position = options.position || "last-child"
MountFiber(H, node, position) ==
  Fiber(H, node, NoFiber, "MountFiber",
        IF position = "undefined" THEN "last-child" ELSE position)

\* ------------------------------------------------------------ complete()
\* A fault names the one step of a commit that throws: a callback
\* (stage, fiber, cb), the patch / mount / updateDom call, or nothing.
NoFault == [stage |-> "none", fiber |-> NoFiber, cb |-> 0]
DomFault == [stage |-> "dom", fiber |-> NoFiber, cb |-> 0]

HookCount(stage, node) ==
  CASE stage = "willPatch" -> NodeWillPatch[node]
    [] stage = "mounted" -> NodeMounted[node]
    [] stage = "patched" -> NodePatched[node]

\* set of the elements of a sequence
Elems(s) == {s[i] : i \in 1 .. Len(s)}

QueueOf(H, this, stage) ==
  CASE stage = "willPatch" -> H.fibers[this].willPatch
    [] stage = "mounted" -> H.fibers[this].mounted
    [] stage = "patched" -> H.fibers[this].patched

\* the steps of this.complete() that may throw
Faults(H, this) ==
  {NoFault, DomFault} \cup
  UNION {{[stage |-> s, fiber |-> f, cb |-> i] :
            i \in 1 .. HookCount(s, H.fibers[f].node)} :
          <<s, f>> \in {x \in {"willPatch", "mounted", "patched"} \X Allocated(H) :
                          x[2] \in Elems(QueueOf(H, this, x[1]))}}

\* what an observer sees at the moment a step of complete() runs
Entry(H, this, stage, fiber, cb) ==
  [stage |-> stage, fiber |-> fiber, cb |-> cb,
   attached |-> H.nodes[H.fibers[fiber].node].fiber = fiber,
   applied |-> H.fibers[fiber].appliedToDom,
   locked |-> H.fibers[this].locked,
   patched |-> H.fibers[this].appliedToDom,
   detached |-> H.nodes[H.fibers[this].node].fiber = NoFiber]

\* for (let cb of node.<stage>) cb(): callbacks i .. n of current, in order
RECURSIVE callbacks(_, _, _, _, _, _)
callbacks(H, this, stage, current, i, fault) ==
  IF i > HookCount(stage, H.fibers[current].node)
  THEN [log |-> <<>>, thrown |-> FALSE]
  ELSE LET e == Entry(H, this, stage, current, i) IN
       IF fault = [stage |-> stage, fiber |-> current, cb |-> i]
       THEN [log |-> <<e>>, thrown |-> TRUE]
       ELSE LET rest == callbacks(H, this, stage, current, i + 1, fault)
            IN [log |-> <<e>> \o rest.log, thrown |-> rest.thrown]

\* the for..of loop of step 1 visiting the queue from its end
RECURSIVE willPatchLoopLast(_, _, _, _)
willPatchLoopLast(H, this, queue, fault) ==
  IF queue = <<>> THEN [log |-> <<>>, thrown |-> FALSE, current |-> NoFiber]
  ELSE LET current == queue[Len(queue)]
           run == IF H.nodes[H.fibers[current].node].fiber = current
                  THEN callbacks(H, this, "willPatch", current, 1, fault)
                  ELSE [log |-> <<>>, thrown |-> FALSE]
       IN IF run.thrown
          THEN [log |-> run.log, thrown |-> TRUE, current |-> current]
          ELSE LET rest == willPatchLoopLast(H, this, SubSeq(queue, 1, Len(queue) - 1), fault)
               IN [log |-> run.log \o rest.log, thrown |-> rest.thrown,
                   current |-> rest.current]

\* Step 1: for (current of this.willPatch) if (node.fiber === current) ...
RECURSIVE willPatchLoop(_, _, _, _)
willPatchLoop(H, this, queue, fault) ==
  IF queue = <<>> THEN [log |-> <<>>, thrown |-> FALSE, current |-> NoFiber]
  ELSE LET current == Head(queue)
           run == IF H.nodes[H.fibers[current].node].fiber = current
                  THEN callbacks(H, this, "willPatch", current, 1, fault)
                  ELSE [log |-> <<>>, thrown |-> FALSE]
       IN IF run.thrown
          THEN [log |-> run.log, thrown |-> TRUE, current |-> current]
          ELSE LET rest == willPatchLoop(H, this, Tail(queue), fault)
               IN [log |-> run.log \o rest.log, thrown |-> rest.thrown,
                   current |-> rest.current]

\* shift() instead of pop(): the first element of the queue
ShiftIndex(queue) == 1

\* index of the element Array.prototype.pop() removes
PopIndex(queue) == Len(queue)

\* the mounted / patched loops without their appliedToDom guard
HookGuardNone(H, current) == TRUE

\* the guard of the mounted / patched loops
HookGuard(H, current) == H.fibers[current].appliedToDom

\* Steps 4, 5: while ((current = queue.pop())) if (current.appliedToDom) ...
RECURSIVE drain(_, _, _, _, _)
drain(H, this, stage, queue, fault) ==
  IF queue = <<>>
  THEN [queue |-> <<>>, log |-> <<>>, thrown |-> FALSE, current |-> NoFiber]
  ELSE LET k == PopIndex(queue)
           current == queue[k]
           left == SubSeq(queue, 1, k - 1) \o SubSeq(queue, k + 1, Len(queue))
           run == IF HookGuard(H, current)
                  THEN callbacks(H, this, stage, current, 1, fault)
                  ELSE [log |-> <<>>, thrown |-> FALSE]
       IN IF run.thrown
          THEN [queue |-> left, log |-> run.log, thrown |-> TRUE,
                current |-> current]
          ELSE LET rest == drain(H, this, stage, left, fault)
               IN [queue |-> rest.queue, log |-> run.log \o rest.log,
                   thrown |-> rest.thrown, current |-> rest.current]

\* handleError({fiber, error}): flags the fiber and its root as errored
handleError(H, fiber) ==
  [H EXCEPT !.errors = @ \cup {fiber, H.fibers[fiber].root}]

\* The reconciliation primitive reaching the descendants of the batch: every
\* other fiber of the batch that is rendered and still attached is applied,
\* detached from its node, and its node is mounted.
Descendants(H, this) ==
  {f \in Allocated(H) \ {this} :
     /\ H.fibers[f].root = this
     /\ H.fibers[f].bdom # NoBDom
     /\ H.nodes[H.fibers[f].node].fiber = f}

applyDescendants(H, this) ==
  LET ds == Descendants(H, this)
      owner(n) == CHOOSE f \in ds : H.fibers[f].node = n
  IN [H EXCEPT
       !.fibers = [f \in DOMAIN @ |->
                     IF f \in ds THEN [@[f] EXCEPT !.appliedToDom = TRUE] ELSE @[f]],
       !.nodes = [n \in DOMAIN @ |->
                    IF \E f \in ds : H.fibers[f].node = n
                    THEN [fiber |-> NoFiber,
                          bdom |-> IF @[n].bdom = NoBDom
                                   THEN H.fibers[owner(n)].bdom ELSE @[n].bdom,
                          status |-> "MOUNTED"]
                    ELSE @[n]]]

\* the catch block without this.locked = false
RootCatchLocked(H, this, current, log) ==
  LET f == IF current # NoFiber THEN current ELSE this
  IN [heap |-> handleError(H, f), log |-> log, thrown |-> TRUE, handled |-> <<f>>]

\* catch (e) { this.locked = false; handleError({ fiber: current || this, error: e }); }
RootCatch(H, this, current, log) ==
  LET f == IF current # NoFiber THEN current ELSE this
      H1 == [H EXCEPT !.fibers[this].locked = FALSE]
  IN [heap |-> handleError(H1, f), log |-> log, thrown |-> TRUE, handled |-> <<f>>]

\* RootFiber.complete() running the mounted / patched loops before
\* appliedToDom, locked and node.fiber are updated
RootFiber_completeLate(H, this, fault) ==
  LET node == H.fibers[this].node
      H0 == [H EXCEPT !.fibers[this].locked = TRUE]
      wp == willPatchLoop(H0, this, H0.fibers[this].willPatch, fault)
      pe == Entry(H0, this, "patch", this, 0)
      H1 == applyDescendants(H0, this)
      m == drain(H1, this, "mounted", H1.fibers[this].mounted, fault)
      H2 == [H1 EXCEPT !.fibers[this].mounted = m.queue]
      p == drain(H2, this, "patched", H2.fibers[this].patched, fault)
      H3 == [H2 EXCEPT !.fibers[this].patched = p.queue]
      H4 == [H3 EXCEPT !.fibers[this].appliedToDom = TRUE,
                       !.fibers[this].locked = FALSE,
                       !.nodes[node].fiber = NoFiber]
  IN IF wp.thrown THEN RootCatch(H0, this, wp.current, wp.log)
     ELSE IF fault = DomFault THEN RootCatch(H0, this, NoFiber, wp.log \o <<pe>>)
     ELSE IF m.thrown THEN RootCatch(H2, this, m.current, wp.log \o <<pe>> \o m.log)
     ELSE IF p.thrown
          THEN RootCatch(H3, this, p.current, wp.log \o <<pe>> \o m.log \o p.log)
     ELSE [heap |-> H4, log |-> wp.log \o <<pe>> \o m.log \o p.log,
           thrown |-> FALSE, handled |-> <<>>]

\* RootFiber.complete()
RootFiber_complete(H, this, fault) ==
  LET node == H.fibers[this].node
      H0 == [H EXCEPT !.fibers[this].locked = TRUE]
      wp == willPatchLoop(H0, this, H0.fibers[this].willPatch, fault)
      pe == Entry(H0, this, "patch", this, 0)
      H1 == applyDescendants(H0, this)
      H2 == [H1 EXCEPT !.fibers[this].appliedToDom = TRUE,
                       !.fibers[this].locked = FALSE,
                       !.nodes[node].fiber = NoFiber]
      m == drain(H2, this, "mounted", H2.fibers[this].mounted, fault)
      H3 == [H2 EXCEPT !.fibers[this].mounted = m.queue]
      p == drain(H3, this, "patched", H3.fibers[this].patched, fault)
      H4 == [H3 EXCEPT !.fibers[this].patched = p.queue]
  IN IF wp.thrown THEN RootCatch(H0, this, wp.current, wp.log)
     ELSE IF fault = DomFault THEN RootCatch(H0, this, NoFiber, wp.log \o <<pe>>)
     ELSE IF m.thrown THEN RootCatch(H3, this, m.current, wp.log \o <<pe>> \o m.log)
     ELSE IF p.thrown
          THEN RootCatch(H4, this, p.current, wp.log \o <<pe>> \o m.log \o p.log)
     ELSE [heap |-> H4, log |-> wp.log \o <<pe>> \o m.log \o p.log,
           thrown |-> FALSE, handled |-> <<>>]

\* catch (e) { handleError({ fiber: current as Fiber, error: e }); }
MountCatch(H, current, log) ==
  [heap |-> handleError(H, current), log |-> log, thrown |-> TRUE,
   handled |-> <<current>>]

\* mount() always appending to the target
mountAppend(H, this, bdom) ==
  [H EXCEPT !.target = Append(@, bdom)]

\* mount(node.bdom, this.target [, firstChild])
mount(H, this, bdom) ==
  IF H.fibers[this].position = "last-child" \/ Len(H.target) = 0
  THEN [H EXCEPT !.target = Append(@, bdom)]
  ELSE [H EXCEPT !.target = <<bdom>> \o @]

\* MountFiber.complete()
MountFiber_complete(H, this, fault) ==
  LET node == H.fibers[this].node
      retry == H.nodes[node].bdom # NoBDom
      de == Entry(H, this, IF retry THEN "updateDom" ELSE "mount", this, 0)
      H1 == IF retry THEN H
            ELSE [H EXCEPT !.nodes[node].bdom = H.fibers[this].bdom]
      H2 == IF retry THEN H1 ELSE mount(H1, this, H1.nodes[node].bdom)
      H3 == applyDescendants(H2, this)
      H4 == [H3 EXCEPT !.nodes[node].fiber = NoFiber,
                       !.nodes[node].status = "MOUNTED",
                       !.fibers[this].appliedToDom = TRUE]
      m == drain(H4, this, "mounted", H4.fibers[this].mounted, fault)
      H5 == [H4 EXCEPT !.fibers[this].mounted = m.queue]
  IN IF fault = DomFault THEN MountCatch(H1, this, <<de>>)
     ELSE IF m.thrown THEN MountCatch(H5, m.current, <<de>> \o m.log)
     ELSE [heap |-> H5, log |-> <<de>> \o m.log, thrown |-> FALSE,
           handled |-> <<>>]

\* the scheduler's call fiber.complete(): dispatch on the object's class
complete(H, this, fault) ==
  IF H.fibers[this].kind = "MountFiber"
  THEN MountFiber_complete(H, this, fault)
  ELSE RootFiber_complete(H, this, fault)

\* ------------------------------------------------------------- history
\* last records the operation just performed: its arguments and return value
\* and, for a commit, the queues it started from, the steps it ran (log) and
\* the calls it made to the error handler
NoLast ==
  [op |-> "init", node |-> 0, returned |-> NoFiber, recycled |-> FALSE,
   root |-> NoFiber, willPatch |-> <<>>, mounted |-> <<>>, patched |-> <<>>,
   log |-> <<>>, thrown |-> FALSE, fault |-> NoFault, handled |-> <<>>,
   position |-> "none"]

RequestRecord(op, H, node, r) ==
  [NoLast EXCEPT !.op = op, !.node = node, !.returned = r.fiber,
                 !.recycled = H.nodes[node].fiber # NoFiber,
                 !.root = r.heap.fibers[r.fiber].root]

Install(H) ==
  /\ fibers' = H.fibers
  /\ nodes' = H.nodes
  /\ count' = H.count
  /\ errors' = H.errors
  /\ target' = H.target

\* --------------------------------------------------------------- actions
NewNode == [fiber |-> NoFiber, bdom |-> NoBDom, status |-> "NEW"]
MountedNode(n) == [fiber |-> NoFiber, bdom |-> InitialBDom(n), status |-> "MOUNTED"]

Init ==
  /\ fibers = [f \in FiberIds |-> BlankFiber]
  /\ count = 0
  /\ errors = {}
  /\ last = NoLast
  /\ \/ \* the application is not mounted yet
        /\ nodes = [n \in Nodes |-> NewNode]
        /\ target \in {<<>>, <<ExistingChild>>}
     \/ \* the application runs: the root is mounted, its descendants are
        \* either all mounted too or not created yet
        /\ \/ nodes = [n \in Nodes |-> MountedNode(n)]
           \/ nodes = [n \in Nodes |-> IF NodeParent[n] = 0 THEN MountedNode(n)
                                                            ELSE NewNode]
        /\ target = <<InitialBDom(1)>>

\* mounting the application root: new MountFiber, node.fiber = fiber,
\* the fiber joins its root's mounted queue when the node has mounted hooks
Mount(n, position) ==
  /\ NodeParent[n] = 0
  /\ nodes[n].status = "NEW" /\ nodes[n].fiber = NoFiber /\ nodes[n].bdom = NoBDom
  /\ count < MaxFibers
  /\ LET r == MountFiber(Heap, n, position)
         H1 == [r.heap EXCEPT !.nodes[n].fiber = r.fiber]
         H2 == IF NodeMounted[n] > 0
               THEN [H1 EXCEPT !.fibers[r.fiber].mounted = Append(@, r.fiber)]
               ELSE H1
     IN /\ Install(H2)
        /\ last' = [NoLast EXCEPT !.op = "mount", !.node = n,
                                  !.returned = r.fiber, !.root = r.fiber,
                                  !.position = position]

\* a render request on a node: makeRootFiber, node.fiber = fiber
Render(n) ==
  /\ nodes[n].fiber # NoFiber \/ nodes[n].bdom # NoBDom
  /\ LET r == makeRootFiber(Heap, n)
         root == r.heap.fibers[r.fiber].root
         H1 == [r.heap EXCEPT !.nodes[n].fiber = r.fiber]
     IN /\ r.heap.count <= MaxFibers
        /\ r.heap.fibers[root].counter <= MaxCounter
        /\ Install(H1)
        /\ last' = RequestRecord("makeRootFiber", Heap, n, r)

\* the render of parent fiber p reaches child node n: makeChildFiber,
\* node.fiber = fiber, and the fiber joins the root's hook queues
ChildRender(n, p) ==
  /\ p \in Allocated(Heap)
  /\ fibers[p].node = NodeParent[n]
  /\ nodes[fibers[p].node].fiber = p
  /\ fibers[p].bdom = NoBDom
  /\ LET current == nodes[n].fiber
         r == makeChildFiber(Heap, n, p)
         root == r.heap.fibers[r.fiber].root
         isNew == nodes[n].status = "NEW" /\ current = NoFiber
         H1 == [r.heap EXCEPT !.nodes[n].fiber = r.fiber]
         H2 == IF isNew /\ NodeMounted[n] > 0
               THEN [H1 EXCEPT !.fibers[root].mounted = Append(@, r.fiber)]
               ELSE H1
         H3 == IF ~isNew /\ NodeWillPatch[n] > 0
               THEN [H2 EXCEPT !.fibers[root].willPatch = Append(@, r.fiber)]
               ELSE H2
         H4 == IF ~isNew /\ NodePatched[n] > 0
               THEN [H3 EXCEPT !.fibers[root].patched = Append(@, r.fiber)]
               ELSE H3
     IN /\ r.heap.count <= MaxFibers
        /\ r.heap.fibers[root].counter <= MaxCounter
        /\ Install(H4)
        /\ last' = RequestRecord("makeChildFiber", Heap, n, r)

\* the render of an attached fiber resolves: fiber.bdom = output,
\* fiber.root.counter--
Resolve(f) ==
  /\ f \in Allocated(Heap)
  /\ nodes[fibers[f].node].fiber = f
  /\ fibers[f].bdom = NoBDom
  /\ LET root == fibers[f].root
         H1 == [Heap EXCEPT !.fibers[f].bdom = f]
         H2 == [H1 EXCEPT !.fibers[root].counter = @ - 1]
     IN /\ Install(H2)
        /\ last' = [NoLast EXCEPT !.op = "resolve"]

\* the scheduler completes a root fiber whose counter reached zero; it keeps
\* a root until it has completed it once, and drops a root flagged as errored
Complete(this) ==
  /\ this \in Allocated(Heap)
  /\ fibers[this].root = this
  /\ fibers[this].counter = 0
  /\ nodes[fibers[this].node].fiber = this
  /\ this \notin errors
  /\ \E fault \in Faults(Heap, this) :
       LET r == complete(Heap, this, fault)
       IN /\ Install(r.heap)
          /\ last' = [NoLast EXCEPT
                        !.op = "complete", !.root = this,
                        !.node = fibers[this].node,
                        !.willPatch = fibers[this].willPatch,
                        !.mounted = fibers[this].mounted,
                        !.patched = fibers[this].patched,
                        !.log = r.log, !.thrown = r.thrown,
                        !.fault = IF r.thrown THEN fault ELSE NoFault,
                        !.handled = r.handled]

\* the outer layer re-drives a root whose commit failed: it clears the error
\* flags of the batch and requests completion again; it does not re-drive a
\* fiber whose node has been given another fiber since
Retry(this) ==
  /\ this \in Allocated(Heap)
  /\ fibers[this].root = this
  /\ fibers[this].counter = 0
  /\ this \in errors
  /\ nodes[fibers[this].node].fiber \in {this, NoFiber}
  /\ \E fault \in Faults(Heap, this) :
       LET H1 == [Heap EXCEPT !.errors = {f \in @ : fibers[f].root # this}]
           r == complete(H1, this, fault)
       IN /\ Install(r.heap)
          /\ last' = [NoLast EXCEPT
                        !.op = "complete", !.root = this,
                        !.node = fibers[this].node,
                        !.willPatch = fibers[this].willPatch,
                        !.mounted = fibers[this].mounted,
                        !.patched = fibers[this].patched,
                        !.log = r.log, !.thrown = r.thrown,
                        !.fault = IF r.thrown THEN fault ELSE NoFault,
                        !.handled = r.handled]

Next ==
  \/ \E n \in Nodes, position \in {"first-child", "last-child", "undefined"} :
       Mount(n, position)
  \/ \E n \in Nodes : Render(n)
  \/ \E n \in Nodes, p \in FiberIds : ChildRender(n, p)
  \/ \E f \in FiberIds : Resolve(f)
  \/ \E this \in FiberIds : Complete(this)
  \/ \E this \in FiberIds : Retry(this)

Spec == Init /\ [][Next]_vars

\* ----------------------------------------------------------- vocabulary
IsFiber(f) == f \in Allocated(Heap)
Attached(f) == IsFiber(f) /\ nodes[fibers[f].node].fiber = f
Pending(f) == fibers[f].bdom = NoBDom
IsRoot(f) == IsFiber(f) /\ fibers[f].root = f
IsRequest(op) == op \in {"makeRootFiber", "makeChildFiber"}

\* fibers cancelFibers visits for the list fs, in visiting order
RECURSIVE Visited(_)
Visited(fs) ==
  IF fs = <<>> THEN <<>>
  ELSE <<Head(fs)>> \o Visited(fibers[Head(fs)].children) \o Visited(Tail(fs))

\* the fiber tree below (and including) f, following children
Subtree(f) == {f} \cup Elems(Visited(fibers[f].children))

PendingIn(S) == Cardinality({f \in S : Pending(f)})

\* ---------------------------------------------------------------- claims

\* C1: in every reachable state the counter of a batch root equals the
\* number of fibers of its subtree (root included) whose bdom is unset.
C1_CounterCountsPending ==
  \A r \in FiberIds :
    IsRoot(r) /\ Attached(r) => fibers[r].counter = PendingIn(Subtree(r))

\* a node's attached fiber is an existing fiber of that node
C2_AttachedIsOwn ==
  \A n \in Nodes :
    nodes[n].fiber # NoFiber =>
      IsFiber(nodes[n].fiber) /\ fibers[nodes[n].fiber].node = n

\* C2: a node's attached fiber is a fiber of that node (so a node never has
\* two), and a makeRootFiber / makeChildFiber request for a node that has an
\* attached fiber returns that same fiber object, leaves it attached and
\* constructs no fiber.
C2_Recycles ==
  /\ []C2_AttachedIsOwn
  /\ [][IsRequest(last'.op) /\ nodes[last'.node].fiber # NoFiber =>
          /\ last'.returned = nodes[last'.node].fiber
          /\ nodes'[last'.node].fiber = nodes[last'.node].fiber
          /\ count' = count]_vars

\* a makeChildFiber request has recycled the fiber attached to its node
C2_Witness ==
  /\ last.op = "makeChildFiber" /\ last.recycled
  /\ nodes[last.node].fiber = last.returned
  /\ count = MaxFibers

\* C3: a batch reaches counter 0 (and so is completed) once its pending
\* fibers have resolved: a root that is its node's current fiber and has no
\* attached fiber left to render has counter 0.
C3_CounterReachesZero ==
  \A r \in FiberIds :
    (/\ IsRoot(r) /\ Attached(r) /\ r \notin errors
     /\ \A f \in FiberIds : Attached(f) /\ fibers[f].root = r => ~Pending(f))
    => fibers[r].counter = 0

\* C4: every fiber with a parent has the root of its parent.
C4_RootOfParent ==
  \A f \in FiberIds :
    IsFiber(f) /\ fibers[f].parent # NoFiber =>
      fibers[f].root = fibers[fibers[f].parent].root

\* cancelFibers returns the number of unrendered fibers it visits
C5_Returned ==
  \A f \in FiberIds :
    Attached(f) =>
      cancelFibers(Heap, fibers[f].root, fibers[f].children).result
        = PendingIn(Elems(Visited(fibers[f].children)))

\* C5: cancelFibers returns K-M for a subtree of K fibers, M of them
\* rendered, and every request that cancels the children of a node's
\* current fiber (makeRootFiber, makeChildFiber) subtracts K-M from the
\* counter of the root those fibers were counted under, apart from the
\* request's own increment of that counter.
C5_CancelSubtracts ==
  /\ []C5_Returned
  /\ [][IsRequest(last'.op) /\ nodes[last'.node].fiber # NoFiber =>
          LET current == nodes[last'.node].fiber
              oldRoot == fibers[current].root
              unrendered == PendingIn(Elems(Visited(fibers[current].children)))
              own == IF last'.op = "makeRootFiber" THEN 1
                     ELSE IF fibers'[current].root = oldRoot /\ ~Pending(current)
                          THEN 1 ELSE 0
          IN fibers'[oldRoot].counter
               = fibers[oldRoot].counter - unrendered + own]_vars

\* C6: two makeRootFiber requests in a row for the same node return the same
\* fiber, and the second leaves the root's counter as the first left it.
C6_Idempotent ==
  [][last.op = "makeRootFiber" /\ last'.op = "makeRootFiber"
       /\ last'.node = last.node =>
          /\ last'.returned = last.returned
          /\ fibers'[last.root].counter = fibers[last.root].counter]_vars

\* ---- the commit: what the last complete() ran
Hooks == {"willPatch", "mounted", "patched"}
LogEntries == {last.log[i] : i \in 1 .. Len(last.log)}

\* fibers whose callbacks of a stage ran, in firing order
RECURSIVE FiredIn(_, _)
FiredIn(log, stage) ==
  IF log = <<>> THEN <<>>
  ELSE IF Head(log).stage = stage /\ Head(log).cb = 1
       THEN <<Head(log).fiber>> \o FiredIn(Tail(log), stage)
       ELSE FiredIn(Tail(log), stage)

Position(queue, f) == CHOOSE i \in 1 .. Len(queue) : queue[i] = f

FiredFromQueue(fired, queue) ==
  \A i \in 1 .. Len(fired) : fired[i] \in Elems(queue)

Fifo(fired, queue) ==
  /\ FiredFromQueue(fired, queue)
  /\ \A i, j \in 1 .. Len(fired) :
       i < j => Position(queue, fired[i]) < Position(queue, fired[j])

Lifo(fired, queue) ==
  /\ FiredFromQueue(fired, queue)
  /\ \A i, j \in 1 .. Len(fired) :
       i < j => Position(queue, fired[i]) > Position(queue, fired[j])

\* C7 (as claimed): no hook of any stage runs for a fiber that is not its
\* node's current fiber at that moment.
C7_NoHookWhenStale ==
  \A e \in LogEntries : e.stage \in Hooks => e.attached

\* C7 (amended): willPatch callbacks run only for a fiber that is its node's
\* current fiber; mounted and patched callbacks run only for a fiber whose
\* appliedToDom is true.
C7_HookGuards ==
  \A e \in LogEntries :
    /\ e.stage = "willPatch" => e.attached
    /\ e.stage \in {"mounted", "patched"} => e.applied

\* a commit that skipped a queued fiber with callbacks and ran another's
C7_Witness ==
  /\ last.op = "complete" /\ ~last.thrown
  /\ \E f \in Elems(last.willPatch) : f \notin Elems(FiredIn(last.log, "willPatch"))
  /\ \E f \in Elems(last.patched) : f \notin Elems(FiredIn(last.log, "patched"))
  /\ FiredIn(last.log, "willPatch") # <<>>
  /\ FiredIn(last.log, "patched") # <<>>

\* C8: when a step of complete() throws, it is the last step that runs, the
\* root is unlocked afterwards, and the error handler is called exactly once,
\* with the fiber whose callback threw, or the root when the patch / mount
\* threw; when a willPatch callback throws the patch is not applied and no
\* mounted or patched callback runs.
C8_ErrorHandling ==
  last.op = "complete" =>
    /\ ~fibers[last.root].locked
    /\ ~last.thrown => last.handled = <<>>
    /\ last.thrown =>
         LET e == last.log[Len(last.log)] IN
         /\ Len(last.log) > 0
         /\ Len(last.handled) = 1
         /\ IF e.stage \in Hooks
            THEN /\ last.fault = [stage |-> e.stage, fiber |-> e.fiber, cb |-> e.cb]
                 /\ last.handled[1] = e.fiber
            ELSE /\ last.fault = DomFault
                 /\ last.handled[1] = last.root
         /\ last.handled[1] \in errors
         /\ last.fault.stage = "willPatch" =>
              /\ \A x \in LogEntries : x.stage = "willPatch"
              /\ ~fibers[last.root].appliedToDom
              /\ nodes[last.node].fiber = last.root

\* a willPatch callback of a descendant threw in a commit with patched hooks
C8_Witness ==
  /\ last.op = "complete" /\ last.thrown
  /\ last.fault.stage = "willPatch"
  /\ last.handled[1] # last.root
  /\ last.patched # <<>>

\* C9 (as claimed): the patched callbacks of one commit fire in queue order.
C9_PatchedFifo ==
  last.op = "complete" => Fifo(FiredIn(last.log, "patched"), last.patched)

\* C9 (amended): the patched callbacks of one commit fire in reverse queue
\* order, the fiber queued last first.
C9_PatchedLifo ==
  last.op = "complete" => Lifo(FiredIn(last.log, "patched"), last.patched)

\* a commit ran the patched callbacks of two fibers
C9_Witness ==
  /\ last.op = "complete"
  /\ Len(FiredIn(last.log, "patched")) >= 2

\* C10: the mounted callbacks of one commit, by RootFiber.complete and by
\* MountFiber.complete, fire in reverse queue order.
C10_MountedLifo ==
  last.op = "complete" => Lifo(FiredIn(last.log, "mounted"), last.mounted)

\* a MountFiber commit ran the mounted callbacks of two fibers
C10_WitnessMount ==
  /\ last.op = "complete" /\ fibers[last.root].kind = "MountFiber"
  /\ Len(FiredIn(last.log, "mounted")) >= 2

\* a RootFiber commit ran the mounted callbacks of two fibers
C10_WitnessRoot ==
  /\ last.op = "complete" /\ fibers[last.root].kind = "RootFiber"
  /\ Len(FiredIn(last.log, "mounted")) >= 2

\* ---- C11
\* positions of the log at which a step of the given stage ran
StepsOf(log, stage) == {i \in 1 .. Len(log) : log[i].stage = stage}

\* callback indices of one stage that ran for fiber f, in firing order
RECURSIVE CallbacksOf(_, _, _)
CallbacksOf(log, stage, f) ==
  IF log = <<>> THEN <<>>
  ELSE IF Head(log).stage = stage /\ Head(log).fiber = f
       THEN <<Head(log).cb>> \o CallbacksOf(Tail(log), stage, f)
       ELSE CallbacksOf(Tail(log), stage, f)

\* C11: RootFiber.complete visits the willPatch queue first-queued-first,
\* runs the willPatch callbacks of every fiber that is still its node's
\* current fiber in registration order (and of no other), and calls patch
\* only after the whole queue has been visited; no mounted or patched
\* callback runs before the patch.
C11_WillPatchFirst ==
  [][last'.op = "complete" /\ fibers[last'.root].kind = "RootFiber" =>
       LET log == last'.log
           queue == fibers[last'.root].willPatch
           live(f) == nodes[fibers[f].node].fiber = f
                      /\ NodeWillPatch[fibers[f].node] > 0
           due == SelectSeq(queue, live)
           fired == FiredIn(log, "willPatch")
       IN /\ Fifo(fired, queue)
          /\ Len(fired) <= Len(due) /\ fired = SubSeq(due, 1, Len(fired))
          /\ \A i \in StepsOf(log, "willPatch") :
               log[i].cb > 1 =>
                 /\ i - 1 \in StepsOf(log, "willPatch")
                 /\ log[i - 1].fiber = log[i].fiber
                 /\ log[i - 1].cb = log[i].cb - 1
          /\ \A i \in StepsOf(log, "patch") :
               /\ \A j \in StepsOf(log, "willPatch") : j < i
               /\ fired = due
               /\ \A f \in Elems(due) :
                    CallbacksOf(log, "willPatch", f)
                      = [k \in 1 .. NodeWillPatch[fibers[f].node] |-> k]
          /\ \A j \in StepsOf(log, "mounted") \cup StepsOf(log, "patched") :
               \E i \in StepsOf(log, "patch") : i < j]_vars

\* a commit ran the willPatch callbacks of two fibers, two of them for one
\* fiber, and then patched
C11_Witness ==
  /\ last.op = "complete" /\ fibers[last.root].kind = "RootFiber"
  /\ Len(FiredIn(last.log, "willPatch")) >= 2
  /\ \E e \in LogEntries : e.stage = "willPatch" /\ e.cb = 2
  /\ StepsOf(last.log, "patch") # {}

\* ---- C12
\* g lies below f in the fiber tree, following parent links
RECURSIVE Below(_, _)
Below(g, f) ==
  /\ fibers[g].parent # NoFiber
  /\ \/ fibers[g].parent = f
     \/ Below(fibers[g].parent, f)

\* C12: when makeChildFiber(nodeB, fiberA) finds on B an independent root
\* fiber with a pending render and a root other than A's, then B's fiber is
\* the returned one, its root is A's root and its parent fiberA, the counter
\* of A's root is one higher, and every pending fiber below B's fiber is
\* detached from its node and has A's root.
C12_AdoptsPendingRoot ==
  [][/\ last'.op = "makeChildFiber"
     /\ nodes[last'.node].fiber # NoFiber
     /\ fibers[nodes[last'.node].fiber].root = nodes[last'.node].fiber
     /\ Pending(nodes[last'.node].fiber)
     /\ last'.root # nodes[last'.node].fiber
     =>
     LET B == nodes[last'.node].fiber
         A == nodes[NodeParent[last'.node]].fiber
         rootA == fibers[A].root
     IN /\ last'.returned = B /\ nodes'[last'.node].fiber = B
        /\ fibers'[B].root = rootA /\ last'.root = rootA
        /\ fibers'[B].parent = A
        /\ fibers'[rootA].counter = fibers[rootA].counter + 1
        /\ \A g \in FiberIds :
             Attached(g) /\ Pending(g) /\ Below(g, B) =>
               /\ nodes'[fibers[g].node].fiber = NoFiber
               /\ fibers'[g].root = rootA]_vars

\* ---- C13
\* number of occurrences of x in the sequence s
Occurrences(s, x) == Cardinality({i \in 1 .. Len(s) : s[i] = x})

\* C13: mounting a root node constructs exactly one MountFiber, with
\* counter 1; in a mount without children the resolution of its render
\* brings the counter to 0, and complete() then inserts the fiber's output
\* into the target, clears the node's fiber reference, marks the node
\* mounted and runs each mounted callback of the node exactly once.
C13_MountScenario ==
  /\ [](last.op = "mount" =>
          /\ count = 1
          /\ fibers[last.returned].kind = "MountFiber"
          /\ fibers[last.returned].counter = 1
          /\ nodes[last.node].fiber = last.returned)
  /\ [][last.op = "mount" /\ last'.op = "resolve" =>
          fibers'[last.returned].counter = 0]_vars
  /\ [][/\ last'.op = "complete" /\ ~last'.thrown
        /\ fibers[last'.root].kind = "MountFiber"
        /\ fibers[last'.root].children = <<>>
        /\ nodes[last'.node].bdom = NoBDom
        =>
        /\ fibers[last'.root].counter = 0
        /\ Occurrences(target', fibers[last'.root].bdom)
             = Occurrences(target, fibers[last'.root].bdom) + 1
        /\ Len(target') = Len(target) + 1
        /\ nodes'[last'.node].bdom = fibers[last'.root].bdom
        /\ nodes'[last'.node].fiber = NoFiber
        /\ nodes'[last'.node].status = "MOUNTED"
        /\ CallbacksOf(last'.log, "mounted", last'.root)
             = [k \in 1 .. NodeMounted[last'.node] |-> k]
        /\ fibers'[last'.root].mounted = <<>>]_vars

\* a root without children has been mounted and its mounted callback has run
C13_Witness ==
  /\ last.op = "complete" /\ ~last.thrown
  /\ fibers[last.root].kind = "MountFiber"
  /\ fibers[last.root].children = <<>>
  /\ count = 1
  /\ nodes[last.node].status = "MOUNTED"
  /\ Occurrences(target, nodes[last.node].bdom) = 1
  /\ FiredIn(last.log, "mounted") = <<last.root>>

\* ---- C14
\* C14: in RootFiber.complete, locked is true at every willPatch callback
\* and at the patch; at every mounted or patched callback the root's
\* appliedToDom is true, locked is false and the root node's fiber reference
\* is cleared, so that when the commit got that far a render request on the
\* root's node recycles nothing: makeRootFiber constructs a fiber.
C14_CommitStepOrder ==
  (last.op = "complete" /\ fibers[last.root].kind = "RootFiber") =>
    /\ \A e \in LogEntries :
         /\ e.stage \in {"willPatch", "patch"} => e.locked
         /\ e.stage \in {"mounted", "patched"} =>
              e.patched /\ ~e.locked /\ e.detached
    /\ (count < MaxFibers
        /\ \E e \in LogEntries : e.stage \in {"mounted", "patched"}) =>
         LET r == makeRootFiber(Heap, last.node)
         IN /\ r.fiber # last.root
            /\ r.fiber \notin Allocated(Heap)
            /\ r.heap.fibers[r.fiber].root = r.fiber

\* a commit of a RootFiber ran willPatch, mounted and patched callbacks
C14_Witness ==
  /\ last.op = "complete" /\ fibers[last.root].kind = "RootFiber"
  /\ \A s \in Hooks : \E e \in LogEntries : e.stage = s
  /\ count < MaxFibers

\* ---- C15
\* number of fibers of the batch of root r that are attached to their node
\* and not rendered, in the heap (fs, ns)
BatchPending(fs, ns, r) ==
  Cardinality({f \in FiberIds :
                 /\ fs[f].node # 0
                 /\ fs[f].root = r
                 /\ ns[fs[f].node].fiber = f
                 /\ fs[f].bdom = NoBDom})

\* C15: when makeChildFiber recycles a fiber that already has the parent's
\* root, the fiber is removed from the root's willPatch and patched queues,
\* the fiber itself leaves the root's counter unchanged if it was pending
\* and raises it by one if it was rendered, and a counter that equalled the
\* number of pending fibers of the batch still does after the call, the
\* fiber's children having been cancelled.
C15_SameRootRecycle ==
  [][/\ last'.op = "makeChildFiber"
     /\ nodes[last'.node].fiber # NoFiber
     /\ fibers[nodes[last'.node].fiber].root
          = fibers[nodes[NodeParent[last'.node]].fiber].root
     =>
     LET current == nodes[last'.node].fiber
         parent == nodes[NodeParent[last'.node]].fiber
         root == fibers[parent].root
         r == makeChildFiber(Heap, last'.node, parent)
     IN /\ r.fiber = current /\ last'.returned = current
        /\ current \notin Elems(r.heap.fibers[root].willPatch)
        /\ current \notin Elems(r.heap.fibers[root].patched)
        /\ PendingIn(Elems(Visited(fibers[current].children))) = 0 =>
             fibers'[root].counter
               = fibers[root].counter + (IF Pending(current) THEN 0 ELSE 1)
        /\ fibers[root].counter = BatchPending(fibers, nodes, root) =>
             fibers'[root].counter = BatchPending(fibers', nodes', root)]_vars

\* ---- C16
\* C16: a MountFiber takes the requested position, "last-child" when none
\* is given. MountFiber.complete on a node that already holds an output
\* calls updateDom and inserts nothing; otherwise it stores the fiber's
\* output on the node and inserts it into the target: before the first
\* existing child when position is "first-child" and the target is not
\* empty, after the existing children otherwise.
C16_MountBranch ==
  /\ [](last.op = "mount" =>
          fibers[last.returned].position
            = IF last.position = "undefined" THEN "last-child" ELSE last.position)
  /\ [][last'.op = "complete" /\ fibers[last'.root].kind = "MountFiber" =>
          LET this == last'.root
              node == last'.node
              out == fibers[this].bdom
          IN IF nodes[node].bdom # NoBDom
             THEN /\ last'.log[1].stage = "updateDom"
                  /\ target' = target
                  /\ nodes'[node].bdom = nodes[node].bdom
             ELSE /\ last'.log[1].stage = "mount"
                  /\ nodes'[node].bdom = out
                  /\ last'.fault # DomFault =>
                       target' = IF fibers[this].position = "first-child"
                                    /\ target # <<>>
                                 THEN <<out>> \o target
                                 ELSE Append(target, out)]_vars

\* a mount at "first-child" has inserted the output before the child the
\* target already had
C16_Witness ==
  /\ last.op = "complete" /\ ~last.thrown
  /\ fibers[last.root].kind = "MountFiber"
  /\ fibers[last.root].position = "first-child"
  /\ target = <<nodes[last.node].bdom, ExistingChild>>

\* ---- C17
\* the scheduler may call this.complete(): the guard of Complete(this)
CompleteDue(this) ==
  /\ this \in Allocated(Heap)
  /\ fibers[this].root = this
  /\ fibers[this].counter = 0
  /\ nodes[fibers[this].node].fiber = this
  /\ this \notin errors

\* the last operation was this.complete()
Completed(this) == last.op = "complete" /\ last.root = this

\* Scheduling assumed for progress: the render of a fiber that stays attached
\* to its node resolves (weak fairness of Resolve), and a root that is due
\* for completion again and again is completed (strong fairness of
\* Complete, stated on the record each complete() call leaves in last).
LiveSpec ==
  /\ Spec
  /\ \A f \in FiberIds : WF_vars(Resolve(f))
  /\ \A this \in FiberIds : []<>CompleteDue(this) => []<>Completed(this)

\* root r awaits its commit: it is its node's current fiber and not errored
Awaiting(r) == IsRoot(r) /\ Attached(r) /\ r \notin errors

\* r awaits its commit with a counter above zero although no attached fiber
\* of its batch is left to render
Stuck(r) ==
  /\ Awaiting(r)
  /\ fibers[r].counter > 0
  /\ BatchPending(fibers, nodes, r) = 0

\* C17: a root that awaits its commit is eventually committed (or joins
\* another batch, or is flagged as errored), and no root stays forever with
\* a counter above zero while none of its attached fibers is pending.
C17_Progress ==
  \A r \in FiberIds :
    /\ Awaiting(r) ~> ~Awaiting(r)
    /\ ~<>[]Stuck(r)

\* ---- C18
\* C18: a mount root whose status is MOUNTED has its output in the target
\* exactly once, in every reachable state, also after MountFiber.complete
\* has been retried.
C18_MountedIsInserted ==
  \A n \in Nodes :
    (NodeParent[n] = 0 /\ nodes[n].status = "MOUNTED") =>
      /\ nodes[n].bdom # NoBDom
      /\ Occurrences(target, nodes[n].bdom) = 1

\* ---- C19
\* C19: every fiber that is attached to its node and has a parent occurs
\* exactly once in the children list of that parent.
C19_ParentHasChild ==
  \A f \in FiberIds :
    (Attached(f) /\ fibers[f].parent # NoFiber) =>
      Occurrences(fibers[fibers[f].parent].children, f) = 1

\* ---- C20
\* C20: a request cancels the fibers below the node's current fiber. Each
\* fiber it cancels was its node's current fiber (or the node had none), so
\* no newer fiber of that node is detached; the nodes of the cancelled
\* fibers end without a fiber, and the fiber reference of every other node,
\* apart from the requested node's own, is unchanged.
C20_CancelFrame ==
  [][IsRequest(last'.op) =>
       LET current == nodes[last'.node].fiber
           cancelled == IF current = NoFiber THEN {}
                        ELSE Elems(Visited(fibers[current].children))
           touched == {fibers[f].node : f \in cancelled}
       IN /\ \A f \in cancelled :
               /\ nodes[fibers[f].node].fiber \in {f, NoFiber}
               /\ nodes'[fibers[f].node].fiber = NoFiber
          /\ last'.node \notin touched
          /\ \A n \in Nodes \ (touched \cup {last'.node}) :
               nodes'[n].fiber = nodes[n].fiber]_vars

\* a request has cancelled a fiber and left another node's fiber attached
C20_Witness ==
  /\ last.op = "makeChildFiber" /\ last.recycled
  /\ \E f \in FiberIds :
       /\ IsFiber(f) /\ ~Attached(f)
       /\ nodes[fibers[f].node].fiber = NoFiber
       /\ fibers[f].root = last.root /\ f # last.root
       /\ NodeParent[fibers[f].node] = last.node
  /\ Attached(last.root) /\ last.root # last.returned
====
